---- MODULE Spec2Model ----
(***************************************************************************)
(* Model of postgres_composite_types/__init__.py: the metaclass that       *)
(* declares composite types, the first-connection hook, the migration      *)
(* operation and the value conversions of the generated field.             *)
(*                                                                         *)
(* Django and psycopg2 are the environment.  What the model takes from     *)
(* them is written where it is used: Signal.connect/disconnect/send, the   *)
(* database's answer to CREATE TYPE and DROP TYPE, psycopg2's              *)
(* register_composite (it fails with ProgrammingError when the catalog     *)
(* has no type of that name) and get_prep_value of the stock fields.       *)
(***************************************************************************)
EXTENDS Integers, Sequences, FiniteSets, TLC

VARIABLES
    metas,       \* metas[c]: the Meta object of declared class c (cls._meta)
    receivers,   \* connection_created.receivers, in connection order
    pg_types,    \* composite types in the Postgres catalog
    registered,  \* classes whose register_composite call has succeeded
    fired,       \* classes whose database_connected hook has been invoked
    attempted,   \* classes whose hook has called register_composite
    last,        \* the operation of the last step and its inputs
    result,      \* "ok", or the exception the last operation raised
    events,      \* what the last operation did, in order
    inp,         \* conversions: the caller's input
    obj,         \* conversions: the instance built from inp
    tup,         \* conversions: get_prep_value(obj)
    back,        \* conversions: from_db_value(tup)
    direct       \* conversions: get_prep_value(inp), inp a mapping

vars == <<metas, receivers, pg_types, registered, fired, attempted,
          last, result, events, inp, obj, tup, back, direct>>

lifecycle_vars == <<metas, receivers, pg_types, registered, fired, attempted>>
conv_vars == <<inp, obj, tup, back, direct>>

(***************************************************************************)
(* Bounds and input sets                                                   *)
(***************************************************************************)
MaxClasses == 2

DbTypeNames == {"address", "point"}

\* isinstance(connection, PostgresDatabaseWrapper) holds of "postgresql" only
ConnKinds == {"postgresql", "sqlite3"}

Attr(n, k, o) == [name |-> n, kind |-> k, of |-> o]

\* Class bodies: the attributes in declaration order (__prepare__ returns an
\* OrderedDict).  kind "text"/"integer": a stock models.Field; "composite": the
\* Field of declared class `of`; "related": a RelatedField; "other": any
\* attribute that is not a field.
ClassBodies ==
    { <<Attr("zip", "integer", 0), Attr("label", "other", 0), Attr("street", "text", 0)>>,
      <<Attr("home", "composite", 1), Attr("zip", "integer", 0)>>,
      <<Attr("street", "text", 0), Attr("owner", "related", 0)>>,
      <<Attr("owner", "related", 0), Attr("label", "other", 0)>> }

\* The nested configuration block of a class body: absent, without db_type, or
\* naming the database type.
MetaBlock(p, h, n) == [present |-> p, has_db_type |-> h, db_type |-> n]
MetaBlocks ==
    { MetaBlock(FALSE, FALSE, ""), MetaBlock(TRUE, FALSE, "") }
        \cup { MetaBlock(TRUE, TRUE, n) : n \in DbTypeNames }

Classes == 1..Len(metas)

NoSql == <<>>
Event(e, c, conn, sql) == [e |-> e, cls |-> c, conn |-> conn, sql |-> sql]
LastOp(op, c, conn, rel, mb) ==
    [op |-> op, cls |-> c, conn |-> conn, related |-> rel, meta |-> mb]

(***************************************************************************)
(* Strings are sequences of tokens; '%s' formatting and str.join           *)
(* concatenate them.                                                       *)
(***************************************************************************)
RECURSIVE join(_, _)
join(sep, strs) ==
    IF Len(strs) = 0 THEN <<>>
    ELSE IF Len(strs) = 1 THEN strs[1]
    ELSE strs[1] \o sep \o join(sep, Tail(strs))

(***************************************************************************)
(* django.dispatch.Signal: connect appends the receiver unless one with    *)
(* the same dispatch_uid is connected; disconnect removes by dispatch_uid. *)
(***************************************************************************)
connect(rs, cls, uid) ==
    IF \E i \in 1..Len(rs) : rs[i].uid = uid THEN rs
    ELSE Append(rs, [uid |-> uid, cls |-> cls])

disconnect(rs, uid) == SelectSeq(rs, LAMBDA r : r.uid # uid)

(***************************************************************************)
(* The database.  A statement is run by the server, which reads its text:  *)
(* CREATE TYPE n AS (...) succeeds on Postgres when n is free and every    *)
(* column type is known; DROP TYPE n when n exists and no type uses it.    *)
(***************************************************************************)
PgNames(types) == { t.name : t \in types }
BuiltinTypes == {"text", "integer"}

\* the column types of a CREATE TYPE statement: the token after each column name
ColumnTypes(sql) ==
    { sql[i] : i \in { j \in 6..Len(sql) : (j - 6) % 4 = 2 } }

execute(sql, conn, types) ==
    IF conn # "postgresql" THEN [exc |-> "OperationalError", types |-> types]
    ELSE IF sql[1] = "CREATE TYPE"
    THEN IF /\ sql[3] \notin PgNames(types)
            /\ ColumnTypes(sql) \subseteq BuiltinTypes \cup PgNames(types)
         THEN [exc |-> "",
               types |-> types \cup {[name |-> sql[3], uses |-> ColumnTypes(sql) \ BuiltinTypes]}]
         ELSE [exc |-> "ProgrammingError", types |-> types]
    ELSE IF /\ sql[3] \in PgNames(types)
            /\ \A t \in types : sql[3] \notin t.uses
         THEN [exc |-> "", types |-> { t \in types : t.name # sql[3] }]
         ELSE [exc |-> "ProgrammingError", types |-> types]

(***************************************************************************)
(* BaseField.db_type                                                       *)
(***************************************************************************)
\* A stock field answers its column type; the generated Field answers
\* Meta.db_type, on Postgres only.
db_type(field, conn) ==
    IF field.kind = "composite"
    THEN IF conn # "postgresql" THEN [exc |-> "RuntimeError", name |-> ""]
         ELSE [exc |-> "", name |-> metas[field.of].db_type]
    ELSE [exc |-> "", name |-> field.kind]

(***************************************************************************)
(* CompositeTypeMeta.__new__ and __init__                                  *)
(***************************************************************************)
FieldKinds == {"text", "integer", "composite"}

\* collect_fields testing models.Field before RelatedField, which is a
\* models.Field
RECURSIVE collect_fields_field_first(_, _, _)
collect_fields_field_first(attrs, i, fields) ==
    IF i > Len(attrs) THEN [exc |-> "", fields |-> fields]
    ELSE IF attrs[i].kind \in FieldKinds \cup {"related"}
    THEN collect_fields_field_first(attrs, i + 1,
            Append(fields, <<attrs[i].name, [kind |-> attrs[i].kind, of |-> attrs[i].of]>>))
    ELSE collect_fields_field_first(attrs, i + 1, fields)

RECURSIVE collect_fields(_, _, _)
collect_fields(attrs, i, fields) ==
    IF i > Len(attrs) THEN [exc |-> "", fields |-> fields]
    ELSE IF attrs[i].kind = "related" THEN [exc |-> "TypeError", fields |-> fields]
    ELSE IF attrs[i].kind \in FieldKinds
    THEN collect_fields(attrs, i + 1,
            Append(fields, <<attrs[i].name, [kind |-> attrs[i].kind, of |-> attrs[i].of]>>))
    ELSE collect_fields(attrs, i + 1, fields)

\* meta_new on a Meta object that the classes of one db_type share
meta_new_shared(ms, cls, attrs, mb) ==
    LET got == collect_fields(attrs, 1, <<>>) IN
    IF got.exc # "" THEN [exc |-> got.exc, metas |-> ms]
    ELSE IF ~(mb.present /\ mb.has_db_type) THEN [exc |-> "TypeError", metas |-> ms]
    ELSE LET meta == [db_type |-> mb.db_type, fields |-> got.fields, model |-> cls] IN
         [exc |-> "",
          metas |-> Append([c \in 1..Len(ms) |->
                               IF ms[c].db_type = mb.db_type THEN meta ELSE ms[c]], meta)]

\* ms: the Meta objects of the classes declared so far.  The Meta block of a
\* class body is a new object; __new__ sets fields and model on it.
meta_new(ms, cls, attrs, mb) ==
    LET got == collect_fields(attrs, 1, <<>>) IN
    IF got.exc # "" THEN [exc |-> got.exc, metas |-> ms]
    ELSE IF ~(mb.present /\ mb.has_db_type) THEN [exc |-> "TypeError", metas |-> ms]
    ELSE [exc |-> "",
          metas |-> Append(ms, [db_type |-> mb.db_type, fields |-> got.fields, model |-> cls])]

meta_init(rs, cls, meta) == connect(rs, cls, meta.db_type)

(***************************************************************************)
(* CompositeTypeMeta.register_composite and database_connected             *)
(***************************************************************************)
\* psycopg2.extras.register_composite looks the name up in the catalog of the
\* connection and raises ProgrammingError when it is not there.
register_composite(cls, conn, types) ==
    IF conn # "postgresql" THEN "TypeError"
    ELSE IF metas[cls].db_type \in PgNames(types) THEN ""
    ELSE "ProgrammingError"

\* database_connected leaving the hook connected when the registration fails
database_connected_retry(st, cls, conn) ==
    LET exc == IF conn = "postgresql" THEN register_composite(cls, conn, pg_types)
               ELSE "skipped"
        st1 == [st EXCEPT !.fired = @ \cup {cls},
                          !.attempted = IF exc = "skipped" THEN @ ELSE @ \cup {cls}]
    IN
    IF exc = "skipped"
    THEN [st1 EXCEPT !.receivers = disconnect(@, metas[cls].db_type),
                     !.events = Append(@, Event("disconnect", cls, conn, NoSql))]
    ELSE IF exc = ""
    THEN [st1 EXCEPT !.registered = @ \cup {cls},
                     !.receivers = disconnect(@, metas[cls].db_type),
                     !.events = @ \o <<Event("register", cls, conn, NoSql),
                                       Event("disconnect", cls, conn, NoSql)>>]
    ELSE IF exc = "ProgrammingError"
    THEN [st1 EXCEPT !.events = @ \o <<Event("register_failed", cls, conn, NoSql),
                                       Event("warning", cls, conn, NoSql)>>]
    ELSE [st1 EXCEPT !.exc = exc,
                     !.events = Append(@, Event("register_failed", cls, conn, NoSql))]

\* database_connected without the except clause
database_connected_uncaught(st, cls, conn) ==
    LET exc == IF conn = "postgresql" THEN register_composite(cls, conn, pg_types)
               ELSE "skipped"
        st1 == [st EXCEPT !.fired = @ \cup {cls},
                          !.attempted = IF exc = "skipped" THEN @ ELSE @ \cup {cls}]
    IN
    IF exc = "skipped"
    THEN [st1 EXCEPT !.receivers = disconnect(@, metas[cls].db_type),
                     !.events = Append(@, Event("disconnect", cls, conn, NoSql))]
    ELSE IF exc = ""
    THEN [st1 EXCEPT !.registered = @ \cup {cls},
                     !.receivers = disconnect(@, metas[cls].db_type),
                     !.events = @ \o <<Event("register", cls, conn, NoSql),
                                       Event("disconnect", cls, conn, NoSql)>>]
    ELSE [st1 EXCEPT !.exc = exc,
                     !.events = Append(@, Event("register_failed", cls, conn, NoSql))]

\* database_connected disconnecting inside the isinstance branch
database_connected_postgres_only(st, cls, conn) ==
    LET exc == IF conn = "postgresql" THEN register_composite(cls, conn, pg_types)
               ELSE "skipped"
        st1 == [st EXCEPT !.fired = @ \cup {cls},
                          !.attempted = IF exc = "skipped" THEN @ ELSE @ \cup {cls}]
    IN
    IF exc = "skipped" THEN st1
    ELSE IF exc = ""
    THEN [st1 EXCEPT !.registered = @ \cup {cls},
                     !.receivers = disconnect(@, metas[cls].db_type),
                     !.events = @ \o <<Event("register", cls, conn, NoSql),
                                       Event("disconnect", cls, conn, NoSql)>>]
    ELSE IF exc = "ProgrammingError"
    THEN [st1 EXCEPT !.receivers = disconnect(@, metas[cls].db_type),
                     !.events = @ \o <<Event("register_failed", cls, conn, NoSql),
                                       Event("warning", cls, conn, NoSql),
                                       Event("disconnect", cls, conn, NoSql)>>]
    ELSE [st1 EXCEPT !.exc = exc,
                     !.events = Append(@, Event("register_failed", cls, conn, NoSql))]

\* st: the process state the hook reads and writes
database_connected(st, cls, conn) ==
    LET exc == IF conn = "postgresql" THEN register_composite(cls, conn, pg_types)
               ELSE "skipped"
        st1 == [st EXCEPT !.fired = @ \cup {cls},
                          !.attempted = IF exc = "skipped" THEN @ ELSE @ \cup {cls}]
    IN
    IF exc = "skipped"
    THEN [st1 EXCEPT !.receivers = disconnect(@, metas[cls].db_type),
                     !.events = Append(@, Event("disconnect", cls, conn, NoSql))]
    ELSE IF exc = ""
    THEN [st1 EXCEPT !.registered = @ \cup {cls},
                     !.receivers = disconnect(@, metas[cls].db_type),
                     !.events = @ \o <<Event("register", cls, conn, NoSql),
                                       Event("disconnect", cls, conn, NoSql)>>]
    ELSE IF exc = "ProgrammingError"
    THEN [st1 EXCEPT !.receivers = disconnect(@, metas[cls].db_type),
                     !.events = @ \o <<Event("register_failed", cls, conn, NoSql),
                                       Event("warning", cls, conn, NoSql),
                                       Event("disconnect", cls, conn, NoSql)>>]
    ELSE [st1 EXCEPT !.exc = exc,
                     !.events = Append(@, Event("register_failed", cls, conn, NoSql))]

\* Signal.send calls the receivers that were connected when it started, in
\* order, and stops at the first that raises.
RECURSIVE send_connection_created(_, _, _, _)
send_connection_created(st, live, i, conn) ==
    IF i > Len(live) \/ st.exc # "" THEN st
    ELSE send_connection_created(database_connected(st, live[i].cls, conn), live, i + 1, conn)

(***************************************************************************)
(* BaseOperation.database_forwards and database_backwards                  *)
(***************************************************************************)
\* column_defs formatting '%s %s' % (db_type, name)
RECURSIVE column_defs_type_first(_, _, _)
column_defs_type_first(fields, i, conn) ==
    IF i > Len(fields) THEN [exc |-> "", strs |-> <<>>]
    ELSE LET t == db_type(fields[i][2], conn) IN
         IF t.exc # "" THEN [exc |-> t.exc, strs |-> <<>>]
         ELSE LET rest == column_defs_type_first(fields, i + 1, conn) IN
              IF rest.exc # "" THEN rest
              ELSE [exc |-> "", strs |-> <<<<t.name, " ", fields[i][1]>>>> \o rest.strs]

RECURSIVE column_defs(_, _, _)
column_defs(fields, i, conn) ==
    IF i > Len(fields) THEN [exc |-> "", strs |-> <<>>]
    ELSE LET t == db_type(fields[i][2], conn) IN
         IF t.exc # "" THEN [exc |-> t.exc, strs |-> <<>>]
         ELSE LET rest == column_defs(fields, i + 1, conn) IN
              IF rest.exc # "" THEN rest
              ELSE [exc |-> "", strs |-> <<<<fields[i][1], " ", t.name>>>> \o rest.strs]

create_type_sql(meta, strs) ==
    join(<<" ">>, << <<"CREATE TYPE">>, <<meta.db_type>>,
                     <<"AS (">> \o join(<<", ">>, strs) \o <<")">> >>)

drop_type_sql(meta) == <<"DROP TYPE", " ", meta.db_type>>

\* database_forwards sending composite_type_created before the statement runs
database_forwards_notify_first(st, cls, conn) ==
    LET meta == metas[cls]
        cols == column_defs(meta.fields, 1, conn)
    IN
    IF cols.exc # "" THEN [st EXCEPT !.exc = cols.exc]
    ELSE
    LET sql == create_type_sql(meta, cols.strs)
        ran == execute(sql, conn, st.types)
        st1 == [st EXCEPT !.events = @ \o <<Event("send", meta.model, conn, NoSql),
                                            Event("execute", cls, conn, sql)>>,
                          !.types = ran.types]
    IN
    IF ran.exc # "" THEN [st1 EXCEPT !.exc = ran.exc]
    ELSE
    LET reg == register_composite(meta.model, conn, st1.types) IN
    IF reg # "" THEN [st1 EXCEPT !.exc = reg]
    ELSE [st1 EXCEPT !.registered = @ \cup {meta.model},
                     !.events = Append(@, Event("register", meta.model, conn, NoSql))]

\* st: [types, registered, events, exc]
database_forwards(st, cls, conn) ==
    LET meta == metas[cls]
        cols == column_defs(meta.fields, 1, conn)
    IN
    IF cols.exc # "" THEN [st EXCEPT !.exc = cols.exc]
    ELSE
    LET sql == create_type_sql(meta, cols.strs)
        ran == execute(sql, conn, st.types)
        st1 == [st EXCEPT !.events = Append(@, Event("execute", cls, conn, sql)),
                          !.types = ran.types]
    IN
    IF ran.exc # "" THEN [st1 EXCEPT !.exc = ran.exc]
    ELSE
    LET reg == register_composite(meta.model, conn, st1.types) IN
    IF reg # "" THEN [st1 EXCEPT !.exc = reg]
    ELSE [st1 EXCEPT !.registered = @ \cup {meta.model},
                     !.events = @ \o <<Event("register", meta.model, conn, NoSql),
                                       Event("send", meta.model, conn, NoSql)>>]

database_backwards(st, cls, conn) ==
    LET sql == drop_type_sql(metas[cls])
        ran == execute(sql, conn, st.types)
    IN [st EXCEPT !.events = Append(@, Event("execute", cls, conn, sql)),
                  !.types = ran.types,
                  !.exc = ran.exc]

(***************************************************************************)
(* Python values.  k is the type: "None", "int", "str" (the decimal string *)
(* of n), "word" (a str that is not a number), "repr" (str(x) of the       *)
(* object in s), "tuple", "dict" (keys and their values), "inst" (an       *)
(* instance of declared class n and its __dict__), "call" (positional and  *)
(* named arguments), "raise" (an exception, named in keys).                *)
(***************************************************************************)
V(k, n, keys, s) == [k |-> k, n |-> n, keys |-> keys, s |-> s]
NoValue == V("absent", 0, <<>>, <<>>)
None_ == V("None", 0, <<>>, <<>>)
PyInt(n) == V("int", n, <<>>, <<>>)
PyStr(n) == V("str", n, <<>>, <<>>)
Word == V("word", 0, <<>>, <<>>)
Repr(x) == V("repr", 0, <<>>, <<x>>)
Tuple(s) == V("tuple", 0, <<>>, s)
Dict(keys, s) == V("dict", 0, keys, s)
Inst(cls, keys, s) == V("inst", cls, keys, s)
Call(cls, args, kwargs) == V("call", cls, <<>>, <<Tuple(args), kwargs>>)
Raise(exc) == V("raise", 0, <<exc>>, <<>>)

Index(keys, name) == CHOOSE i \in 1..Len(keys) : keys[i] = name
Has(o, name) == \E i \in 1..Len(o.keys) : o.keys[i] = name

\* dict.get(name) and getattr(instance, name)
get(o, name) == IF Has(o, name) THEN o.s[Index(o.keys, name)] ELSE None_

setattr(o, name, value) ==
    IF Has(o, name) THEN [o EXCEPT !.s[Index(o.keys, name)] = value]
    ELSE [o EXCEPT !.keys = Append(@, name), !.s = Append(@, value)]

\* tuple(<generator>): the first component that raises ends the evaluation
tuple(items) ==
    IF \E i \in 1..Len(items) : items[i].k = "raise"
    THEN items[CHOOSE i \in 1..Len(items) :
                 /\ items[i].k = "raise"
                 /\ \A j \in 1..(i - 1) : items[j].k # "raise"]
    ELSE Tuple(items)

(***************************************************************************)
(* CompositeType.__init__                                                  *)
(***************************************************************************)
RECURSIVE init_blank(_, _, _)
init_blank(self, fields, i) ==
    IF i > Len(fields) THEN self
    ELSE init_blank(setattr(self, fields[i][1], None_), fields, i + 1)

RECURSIVE init_args(_, _, _, _)
init_args(self, fields, args, i) ==
    IF i > Len(fields) \/ i > Len(args) THEN self
    ELSE init_args(setattr(self, fields[i][1], args[i]), fields, args, i + 1)

RECURSIVE init_kwargs(_, _, _)
init_kwargs(self, kwargs, i) ==
    IF i > Len(kwargs.keys) THEN self
    ELSE init_kwargs(setattr(self, kwargs.keys[i], kwargs.s[i]), kwargs, i + 1)

\* __init__ without the test of args and kwargs
init_unchecked(cls, args, kwargs) ==
    LET fields == metas[cls].fields IN
    init_kwargs(init_args(init_blank(Inst(cls, <<>>, <<>>), fields, 1), fields, args, 1),
                kwargs, 1)

init(cls, args, kwargs) ==
    IF Len(args) > 0 /\ Len(kwargs.keys) > 0 THEN Raise("RuntimeError")
    ELSE LET fields == metas[cls].fields IN
         init_kwargs(init_args(init_blank(Inst(cls, <<>>, <<>>), fields, 1), fields, args, 1),
                     kwargs, 1)

(***************************************************************************)
(* BaseField.get_prep_value, CompositeType.__to_tuple__, to_python and     *)
(* from_db_value.  A field of a declared type is a stock field or the      *)
(* Field of another declared type.  Of the stock fields: IntegerField      *)
(* answers None for None and int(value) otherwise; TextField answers       *)
(* value for None and a str, and str(value) otherwise.                     *)
(***************************************************************************)
RECURSIVE get_prep_value(_, _)
RECURSIVE to_tuple(_)
get_prep_value(field, value) ==
    IF field.kind = "integer"
    THEN IF value.k \in {"None", "int"} THEN value
         ELSE IF value.k = "str" THEN PyInt(value.n)
         ELSE IF value.k \in {"word", "repr"} THEN Raise("ValueError")
         ELSE Raise("TypeError")
    ELSE IF field.kind = "text"
    THEN IF value.k \in {"None", "str", "word", "repr"} THEN value
         ELSE IF value.k = "int" THEN PyStr(value.n)
         ELSE Repr(value)
    ELSE LET meta == metas[field.of] IN
         IF value.k = "dict"
         THEN tuple([i \in 1..Len(meta.fields) |->
                        get_prep_value(meta.fields[i][2], get(value, meta.fields[i][1]))])
         ELSE IF value.k = "inst" /\ value.n = meta.model THEN to_tuple(value)
         ELSE value

to_tuple(self) ==
    LET fields == metas[self.n].fields IN
    tuple([i \in 1..Len(fields) |-> get_prep_value(fields[i][2], get(self, fields[i][1]))])

\* to_python passing the values of the mapping positionally
to_python_positional(field, value) ==
    IF value.k = "dict" THEN init(metas[field.of].model, value.s, Dict(<<>>, <<>>))
    ELSE value

to_python(field, value) ==
    IF value.k = "dict" THEN init(metas[field.of].model, <<>>, value)
    ELSE value

\* from_db_value passing the tuple as one positional value
from_db_value_unstarred(field, value) ==
    IF value.k = "tuple" THEN init(metas[field.of].model, <<value>>, Dict(<<>>, <<>>))
    ELSE value

from_db_value(field, value) ==
    IF value.k = "tuple" THEN init(metas[field.of].model, value.s, Dict(<<>>, <<>>))
    ELSE value

\* cls.Field(): the field bound to the Meta of cls
Field(cls) == [kind |-> "composite", of |-> cls]

(***************************************************************************)
(* The operations of the declaration and migration life cycle              *)
(***************************************************************************)

Outcome(exc) == IF exc = "" THEN "ok" ELSE exc

HasRelated(attrs) == \E i \in 1..Len(attrs) : attrs[i].kind = "related"
MetaState(mb) ==
    IF ~mb.present THEN "absent" ELSE IF ~mb.has_db_type THEN "no_db_type" ELSE "ok"

\* class X(CompositeType): <attrs>; class Meta: <mb>
Declare(attrs, mb) ==
    /\ Len(metas) < MaxClasses
    /\ \A i \in 1..Len(attrs) : attrs[i].kind = "composite" => attrs[i].of \in Classes
    /\ LET cls == Len(metas) + 1
           made == meta_new(metas, cls, attrs, mb)
       IN /\ result' = Outcome(made.exc)
          /\ last' = LastOp("declare", IF made.exc = "" THEN cls ELSE 0, "",
                            HasRelated(attrs), MetaState(mb))
          /\ events' = <<>>
          /\ IF made.exc = ""
             THEN /\ metas' = made.metas
                  /\ receivers' = meta_init(receivers, cls, made.metas[cls])
             ELSE UNCHANGED <<metas, receivers>>
    /\ UNCHANGED <<pg_types, registered, fired, attempted>>
    /\ UNCHANGED conv_vars

\* a new database connection: Django sends connection_created
ConnectionCreated(conn) ==
    /\ LET st0 == [receivers |-> receivers, registered |-> registered, fired |-> fired,
                   attempted |-> attempted, events |-> <<>>, exc |-> ""]
           st == send_connection_created(st0, receivers, 1, conn)
       IN /\ receivers' = st.receivers
          /\ registered' = st.registered
          /\ fired' = st.fired
          /\ attempted' = st.attempted
          /\ events' = st.events
          /\ result' = Outcome(st.exc)
    /\ last' = LastOp("connection_created", 0, conn, FALSE, "")
    /\ UNCHANGED <<metas, pg_types>>
    /\ UNCHANGED conv_vars

\* the migration runner applies cls.Operation() on the connection of its
\* schema editor, which may have been created before cls was declared
MigrateForwards(cls, conn) ==
    /\ cls \in Classes
    /\ LET st0 == [types |-> pg_types, registered |-> registered, events |-> <<>>, exc |-> ""]
           st == database_forwards(st0, cls, conn)
       IN /\ pg_types' = st.types
          /\ registered' = st.registered
          /\ events' = st.events
          /\ result' = Outcome(st.exc)
    /\ last' = LastOp("forwards", cls, conn, FALSE, "")
    /\ UNCHANGED <<metas, receivers, fired, attempted>>
    /\ UNCHANGED conv_vars

MigrateBackwards(cls, conn) ==
    /\ cls \in Classes
    /\ LET st0 == [types |-> pg_types, registered |-> registered, events |-> <<>>, exc |-> ""]
           st == database_backwards(st0, cls, conn)
       IN /\ pg_types' = st.types
          /\ events' = st.events
          /\ result' = Outcome(st.exc)
    /\ last' = LastOp("backwards", cls, conn, FALSE, "")
    /\ UNCHANGED <<metas, receivers, registered, fired, attempted>>
    /\ UNCHANGED conv_vars

\* After the module is imported: the base class CompositeType went through the
\* name == 'CompositeType' branch of __new__ and __init__, which declares
\* nothing and connects nothing.  The catalog may hold types that earlier
\* migrations created.
Init ==
    /\ metas = <<>>
    /\ receivers = <<>>
    /\ pg_types \in { {}, {[name |-> "address", uses |-> {}]} }
    /\ registered = {}
    /\ fired = {}
    /\ attempted = {}
    /\ last = LastOp("import", 0, "", FALSE, "")
    /\ result = "ok"
    /\ events = <<>>
    /\ inp = NoValue /\ obj = NoValue /\ tup = NoValue /\ back = NoValue /\ direct = NoValue

Next ==
    \/ \E attrs \in ClassBodies, mb \in MetaBlocks : Declare(attrs, mb)
    \/ \E conn \in ConnKinds : ConnectionCreated(conn)
    \/ \E cls \in Classes, conn \in ConnKinds : MigrateForwards(cls, conn)
    \/ \E cls \in Classes, conn \in ConnKinds : MigrateBackwards(cls, conn)

Spec == Init /\ [][Next]_vars

(***************************************************************************)
(* The conversions of the generated field, on declared types               *)
(***************************************************************************)
MaxFields == 2

FieldNamePool == <<"street", "city", "zip", "country">>
FieldNames == { FieldNamePool[i] : i \in 1..MaxFields }

\* every ordering of up to MaxFields stock fields
StockBodies ==
    UNION { { b \in [1..m -> { Attr(n, k, 0) : n \in FieldNames, k \in {"text", "integer"} }] :
                \A i, j \in 1..m : i # j => b[i].name # b[j].name } : m \in 0..MaxFields }

\* a type with a field of the first declared type
NestedBody == <<Attr("home", "composite", 1), Attr("age", "integer", 0)>>

Atoms == { None_, PyInt(1), PyStr(1), Word }
EmptyDict == Dict(<<>>, <<>>)

\* values of a composite field: None, an instance, a tuple, a mapping
Nested ==
    { None_, init(1, <<Word, PyInt(1)>>, EmptyDict), Tuple(<<Word, PyInt(1)>>),
      Dict(<<"street">>, <<PyInt(1)>>) }

Values(cls, i) ==
    IF i <= Len(metas[cls].fields) /\ metas[cls].fields[i][2].kind = "composite"
    THEN Nested ELSE Atoms

ArgsFor(cls) ==
    UNION { { a \in [1..m -> Atoms \cup Nested] : \A i \in 1..m : a[i] \in Values(cls, i) } :
            m \in 0..(Len(metas[cls].fields) + 1) }

\* mappings over the field names and one name that is no field
DictsFor(cls) ==
    LET fields == metas[cls].fields
        n == Len(fields)
        keys == [i \in 1..(n + 1) |-> IF i <= n THEN fields[i][1] ELSE "extra"]
        picks == { c \in [1..(n + 1) -> Atoms \cup Nested \cup {NoValue}] :
                     /\ \A i \in 1..n : c[i] \in Values(cls, i) \cup {NoValue}
                     /\ c[n + 1] \in {Word, NoValue} }
        present(c) == SelectSeq([i \in 1..(n + 1) |-> i], LAMBDA i : c[i] # NoValue)
    IN { Dict([j \in 1..Len(present(c)) |-> keys[present(c)[j]]],
              [j \in 1..Len(present(c)) |-> c[present(c)[j]]]) : c \in picks }

CallsFor(cls) ==
    { <<a, EmptyDict>> : a \in ArgsFor(cls) }
        \cup { <<<<>>, d>> : d \in DictsFor(cls) }
        \cup { <<a, d>> : a \in { x \in ArgsFor(cls) : Len(x) = 1 },
                          d \in { y \in DictsFor(cls) : Len(y.keys) = 1 } }

RawFor(cls) == { None_, Tuple(<<Word>>), init(cls, <<Word>>, EmptyDict) }

ExcOf(value) == IF value.k = "raise" THEN value.keys[1] ELSE "ok"

\* what a caller hands over: the arguments of a constructor call, or the value
\* given to to_python
InputsFor(cls) ==
    { Call(cls, c[1], c[2]) : c \in CallsFor(cls) } \cup DictsFor(cls) \cup RawFor(cls)

\* cls(*args, **kwargs)
Construct ==
    /\ inp.k = "call" /\ obj = NoValue
    /\ obj' = init(inp.n, inp.s[1].s, inp.s[2])
    /\ last' = LastOp("construct", inp.n, "", FALSE, "")
    /\ result' = ExcOf(obj')
    /\ UNCHANGED <<inp, tup, back, direct, events>>
    /\ UNCHANGED lifecycle_vars

\* cls.Field().to_python(value)
ToPython(cls) ==
    /\ inp.k # "call" /\ obj = NoValue
    /\ obj' = to_python(Field(cls), inp)
    /\ last' = LastOp("to_python", cls, "", FALSE, "")
    /\ result' = ExcOf(obj')
    /\ UNCHANGED <<inp, tup, back, direct, events>>
    /\ UNCHANGED lifecycle_vars

\* cls.Field().get_prep_value(obj)
GetPrepValue ==
    /\ obj # NoValue /\ obj.k # "raise" /\ tup = NoValue
    /\ tup' = get_prep_value(Field(last.cls), obj)
    /\ result' = ExcOf(tup')
    /\ UNCHANGED <<inp, obj, back, direct, last, events>>
    /\ UNCHANGED lifecycle_vars

\* cls.Field().get_prep_value(inp), on what was handed to to_python
GetPrepValueOfInput ==
    /\ last.op = "to_python" /\ direct = NoValue
    /\ direct' = get_prep_value(Field(last.cls), inp)
    /\ result' = ExcOf(direct')
    /\ UNCHANGED <<inp, obj, tup, back, last, events>>
    /\ UNCHANGED lifecycle_vars

\* cls.Field().from_db_value(tup, expression, connection, context)
FromDbValue ==
    /\ tup # NoValue /\ tup.k # "raise" /\ back = NoValue
    /\ back' = from_db_value(Field(last.cls), tup)
    /\ result' = ExcOf(back')
    /\ UNCHANGED <<inp, obj, tup, direct, last, events>>
    /\ UNCHANGED lifecycle_vars

\* After the declaration of a type of stock fields and of a type that nests
\* it, with an input in hand
InitConv ==
    /\ \E body \in StockBodies :
          LET m1 == meta_new(<<>>, 1, body, MetaBlock(TRUE, TRUE, "address")).metas
              m2 == meta_new(m1, 2, NestedBody, MetaBlock(TRUE, TRUE, "point")).metas
          IN /\ metas = m2
             /\ receivers = meta_init(meta_init(<<>>, 1, m2[1]), 2, m2[2])
    /\ pg_types = {}
    /\ registered = {}
    /\ fired = {}
    /\ attempted = {}
    /\ last = LastOp("declare", 2, "", FALSE, "ok")
    /\ result = "ok"
    /\ events = <<>>
    /\ inp \in UNION { InputsFor(cls) : cls \in Classes }
    /\ obj = NoValue /\ tup = NoValue /\ back = NoValue /\ direct = NoValue

NextConv ==
    \/ Construct
    \/ \E cls \in Classes : ToPython(cls)
    \/ GetPrepValue
    \/ GetPrepValueOfInput
    \/ FromDbValue

SpecConv == InitConv /\ [][NextConv]_vars

(***************************************************************************)
(* Properties of the conversions                                           *)
(***************************************************************************)
FieldsOf(cls) == metas[cls].fields
FieldIdx(cls) == 1..Len(metas[cls].fields)

\* C4 as stated: an instance, its to-storage tuple and the instance
\* from-storage builds of that tuple agree on every declared field.
C4_RoundTripPreserves ==
    (obj.k = "inst" /\ obj.n = last.cls /\ back # NoValue) =>
        /\ back.k = "inst" /\ back.n = obj.n
        /\ \A i \in FieldIdx(obj.n) :
              get(back, FieldsOf(obj.n)[i][1]) = get(obj, FieldsOf(obj.n)[i][1])

\* a value that its field's get_prep_value leaves as it is
Prepared(field, value) ==
    IF field.kind = "integer" THEN value.k \in {"None", "int"}
    ELSE IF field.kind = "text" THEN value.k \in {"None", "str", "word"}
    ELSE value.k \in {"None", "tuple"}

\* C4 amended: the instance built from the to-storage tuple holds, in every
\* declared field, that field's component of the tuple; this is the original
\* value when the original value was in its field's prepared form (None, an int
\* in an integer field, a str in a text field, a tuple in a composite field).
C4_RoundTripPrepared ==
    (obj.k = "inst" /\ obj.n = last.cls /\ back # NoValue) =>
        /\ back.k = "inst" /\ back.n = obj.n
        /\ tup.k = "tuple" /\ Len(tup.s) = Len(FieldsOf(obj.n))
        /\ \A i \in FieldIdx(obj.n) :
              LET name == FieldsOf(obj.n)[i][1] IN
              /\ get(back, name) = tup.s[i]
              /\ Prepared(FieldsOf(obj.n)[i][2], get(obj, name)) =>
                    get(back, name) = get(obj, name)

C4_Witness ==
    /\ obj.k = "inst" /\ obj.n = 1 /\ back.k = "inst"
    /\ Len(FieldsOf(1)) = 2
    /\ get(obj, FieldsOf(1)[1][1]) = Word
    /\ get(obj, FieldsOf(1)[2][1]) = PyInt(1)
    /\ FieldsOf(1)[2][2].kind = "text"
    /\ get(back, FieldsOf(1)[1][1]) = Word
    /\ get(back, FieldsOf(1)[2][1]) = PyStr(1)

\* C5: for a mapping, get_prep_value of to_python(mapping) is
\* get_prep_value(mapping): one component per declared field, in declared
\* order, the prepared None for a field the mapping does not name.
C5_MappingAgrees ==
    (last.op = "to_python" /\ inp.k = "dict" /\ tup # NoValue /\ direct # NoValue) =>
        /\ tup = direct
        /\ tup.k = "tuple" =>
              /\ Len(tup.s) = Len(FieldsOf(last.cls))
              /\ \A i \in FieldIdx(last.cls) :
                    ~Has(inp, FieldsOf(last.cls)[i][1]) => tup.s[i] = None_

C5_Witness ==
    /\ last.op = "to_python" /\ last.cls = 1 /\ inp.k = "dict"
    /\ Len(FieldsOf(1)) = 2
    /\ Has(inp, "extra") /\ Has(inp, FieldsOf(1)[2][1]) /\ ~Has(inp, FieldsOf(1)[1][1])
    /\ get(inp, FieldsOf(1)[2][1]) # None_
    /\ tup.k = "tuple" /\ direct = tup

\* C8: a call with positional and named values raises and builds nothing; any
\* other call builds an instance whose declared fields hold the positional
\* value of their position, the named value of their name, or None.
C8_ArgsOrKwargs ==
    (inp.k = "call" /\ last.op = "construct") =>
        LET args == inp.s[1].s
            kwargs == inp.s[2]
            fields == FieldsOf(inp.n)
        IN IF Len(args) > 0 /\ Len(kwargs.keys) > 0
           THEN obj = Raise("RuntimeError") /\ tup = NoValue
           ELSE /\ obj.k = "inst" /\ obj.n = inp.n
                /\ \A i \in 1..Len(fields) :
                      get(obj, fields[i][1]) =
                          IF i <= Len(args) THEN args[i]
                          ELSE IF Has(kwargs, fields[i][1]) THEN get(kwargs, fields[i][1])
                          ELSE None_

C8_Witness ==
    /\ inp.k = "call" /\ last.op = "construct" /\ obj = Raise("RuntimeError")
    /\ Len(inp.s[1].s) = 1 /\ Len(inp.s[2].keys) = 1

C8_PositionalWitness ==
    /\ inp.k = "call" /\ last.op = "construct" /\ obj.k = "inst" /\ inp.n = 1
    /\ Len(FieldsOf(1)) = 2 /\ Len(inp.s[1].s) = 1
    /\ get(obj, FieldsOf(1)[1][1]) = Word
    /\ get(obj, FieldsOf(1)[2][1]) = None_

(***************************************************************************)
(* Properties of the life cycle                                            *)
(***************************************************************************)
HookConnected(c, rs) == \E i \in 1..Len(rs) : rs[i].cls = c
Did(evs, e, c) == \E i \in 1..Len(evs) : evs[i].e = e /\ evs[i].cls = c
Kinds(evs) == [i \in 1..Len(evs) |-> evs[i].e]

\* C1 as stated: the hook is gone once it has been invoked, and a declared type
\* is registered with the driver at most once in the process.
C1_RegisteredAtMostOnce ==
    /\ [](\A c \in fired : ~HookConnected(c, receivers))
    /\ [][\A c \in registered : ~Did(events', "register", c)]_vars

\* C1 amended: the hook is gone once it has been invoked, whether its
\* registration succeeded, failed or was skipped, so the hook is invoked and
\* attempts the registration at most once per declared type; registrations by
\* the forward migration come on top of that.
C1_HookRunsAtMostOnce ==
    /\ [](\A c \in fired : ~HookConnected(c, receivers))
    /\ [][last'.op = "connection_created" =>
            \A c \in fired : \A i \in 1..Len(events') : events'[i].cls # c]_vars

C1_Witness ==
    /\ last.op = "connection_created"
    /\ \E c \in fired : Did(events, "register_failed", c)
    /\ \E c \in fired : Did(events, "register", c)

\* C2: a forward migration executes CREATE TYPE, then registers the type on the
\* same connection, then sends composite_type_created with the type and the
\* connection; when the statement fails the operation fails without registering
\* or notifying, so a notification implies the type is in the catalog.
C2_ForwardsOrder ==
    last.op = "forwards" =>
        /\ result = "ok" <=> Kinds(events) = <<"execute", "register", "send">>
        /\ result # "ok" => Kinds(events) \in {<<>>, <<"execute">>}
        /\ \A i \in 1..Len(events) :
              /\ events[i].cls = metas[last.cls].model
              /\ events[i].conn = last.conn
        /\ Did(events, "send", last.cls) =>
              /\ events[1].sql[1] = "CREATE TYPE"
              /\ metas[last.cls].db_type \in PgNames(pg_types)
              /\ last.cls \in registered

C2_Witness ==
    /\ last.op = "forwards" /\ result = "ok"
    /\ Did(events, "send", last.cls)

C2_FailedWitness ==
    /\ last.op = "forwards" /\ result = "ProgrammingError"
    /\ Kinds(events) = <<"execute">>

\* C3: when a Postgres connection is created while the hook of a declared type
\* is connected and the catalog has no type of its name, a warning is logged,
\* nothing is raised and the hook is disconnected.
C3_MissingTypeIsSwallowed ==
    [][\A c \in Classes :
          ( /\ last'.op = "connection_created" /\ last'.conn = "postgresql"
            /\ HookConnected(c, receivers)
            /\ metas[c].db_type \notin PgNames(pg_types) )
          => /\ result' = "ok"
             /\ Did(events', "warning", c)
             /\ ~Did(events', "register", c)
             /\ c \notin registered' \ registered
             /\ ~HookConnected(c, receivers')]_vars

C3_Witness ==
    /\ last.op = "connection_created" /\ last.conn = "postgresql"
    /\ result = "ok"
    /\ \E c \in Classes : Did(events, "warning", c) /\ c \notin registered

\* C6: a class body without a Meta block, with a Meta block that has no
\* db_type, or with a relational field raises TypeError; no type is declared
\* and no receiver is connected.
C6_BadDeclarationFails ==
    [][( /\ last'.op = "declare"
         /\ (last'.related \/ last'.meta # "ok") )
       => /\ result' = "TypeError"
          /\ metas' = metas
          /\ receivers' = receivers]_vars

C6_Witness ==
    /\ last.op = "declare" /\ last.related /\ last.meta = "ok"
    /\ result = "TypeError"

C6_WitnessNoDbType ==
    /\ last.op = "declare" /\ ~last.related /\ last.meta = "no_db_type"
    /\ result = "TypeError"

\* the database type name of a declared field
FieldTypeName(field) ==
    IF field.kind = "composite" THEN metas[field.of].db_type ELSE field.kind

\* C7: the statement of the forward migration is CREATE TYPE N AS (f1 t1, ...,
\* fk tk), the fields in declaration order; the statement of the backward
\* migration is DROP TYPE N.
C7_Statements ==
    /\ (last.op = "forwards" /\ result # "RuntimeError") =>
          LET meta == metas[last.cls]
              k == Len(meta.fields)
              sql == events[1].sql
          IN /\ Cardinality({ i \in 1..Len(events) : events[i].e = "execute" }) = 1
             /\ events[1].e = "execute"
             /\ Len(sql) = IF k = 0 THEN 6 ELSE 5 + 4 * k
             /\ SubSeq(sql, 1, 5) = <<"CREATE TYPE", " ", meta.db_type, " ", "AS (">>
             /\ sql[Len(sql)] = ")"
             /\ \A i \in 1..k :
                   /\ sql[4 * i + 2] = meta.fields[i][1]
                   /\ sql[4 * i + 3] = " "
                   /\ sql[4 * i + 4] = FieldTypeName(meta.fields[i][2])
                   /\ i < k => sql[4 * i + 5] = ", "
    /\ last.op = "backwards" =>
          /\ Len(events) = 1
          /\ events[1].e = "execute"
          /\ events[1].sql = <<"DROP TYPE", " ", metas[last.cls].db_type>>

C7_Witness ==
    /\ last.op = "forwards" /\ result = "ok"
    /\ Len(metas[last.cls].fields) = 2
    /\ metas[last.cls].fields[1][2].kind = "composite"

C7_DropWitness ==
    /\ last.op = "backwards" /\ result = "ok"

\* C9: no step changes the metadata of a declared type.
C9_MetaIsFrozen ==
    [][\A c \in Classes : c \in 1..Len(metas') /\ metas'[c] = metas[c]]_vars

C9_Witness ==
    /\ Len(metas) = 2
    /\ last.op = "forwards" /\ result = "ok"
    /\ fired # {}

\* C10: a hook whose first connection is not a Postgres connection attempts no
\* registration and is disconnected; it never attempts one later, and the type
\* is registered afterwards by its own forward migration only.
C10_NonPostgresFirst ==
    /\ [][\A c \in Classes :
            ( /\ last'.op = "connection_created" /\ last'.conn # "postgresql"
              /\ HookConnected(c, receivers) )
            => /\ c \in fired' \ attempted'
               /\ ~Did(events', "register", c) /\ ~Did(events', "register_failed", c)
               /\ ~HookConnected(c, receivers')]_vars
    /\ [][\A c \in fired \ attempted :
            /\ ~HookConnected(c, receivers')
            /\ c \notin attempted'
            /\ c \in registered' \ registered =>
                  last'.op = "forwards" /\ last'.cls = c]_vars

C10_Witness ==
    /\ \E c \in fired \ attempted : c \in registered
    /\ last.op = "connection_created" /\ last.conn = "postgresql"

====
